---- MODULE Spec2Model ----
(***************************************************************************)
(* Authentication and user-management core of the rawa REST backend.       *)
(*                                                                         *)
(* The store holds the User table and the EmailVerification table.  Each   *)
(* HTTP request is one handler invocation; a handler is a sequence of      *)
(* store operations (its awaits), and the store operations of different    *)
(* requests interleave.  One action of the model is one store operation    *)
(* of one request together with the handler code that runs up to the next  *)
(* store operation (or up to the response).                                *)
(***************************************************************************)
EXTENDS Integers, Sequences, FiniteSets, TLC

----------------------------------------------------------------------------
(* Bounds of the model *)

MaxUsers == 2
MaxCodes == 2
MaxTime == 2
MaxAds == 2

(* The code lifetime, 15*60*1000 ms in the source: one clock tick of the   *)
(* model is 15 minutes.                                                    *)
CodeTTL == 1

(* The default lifetime of an ad, 7*24*60*60*1000 ms in the source, in     *)
(* ticks of 15 minutes.                                                    *)
AdTTL == 672

(* The request slots: two handler invocations can be in flight at once *)
Reqs == {1, 2}

Roles == {"SUPER_ADMIN", "ADMIN", "DATA_ENTRY", "FACTORY_OWNER", "EMPLOYEE", "USER"}
Usernames == {"root", "alice"}
Emails == {"r@x.com", "a@x.com"}
Passwords == {"secret1", "secret2"}

(* Math.random() yields a number in [0,1); the model draws it in           *)
(* thousandths.                                                            *)
Rands == {0, 999}

NoUser == [none |-> "user"]
NoRec == [none |-> "record"]
NoEmail == "undefined"
NoRole == "undefined"
NoCode == 0
NoPassword == "undefined"
NoToken == [none |-> "token"]
NoId == 0
NoRand == -1
NoAd == [none |-> "ad"]
NoTitle == "undefined"
NoDate == -1
NoFlag == <<>>

(* the phone number every request carries *)
Phone == "0911"

UserIds == 1..MaxUsers
CodeIds == 1..MaxCodes
AdIds == 1..MaxAds

----------------------------------------------------------------------------
(* The state *)

VARIABLES
  users,     \* User table: id -> row or NoUser
  nextUid,   \* AUTO_INCREMENT of User.id
  codes,     \* EmailVerification table: id -> row or NoRec
  nextCid,   \* AUTO_INCREMENT of EmailVerification.id
  now,       \* the clock (Date.now()), in ticks
  pc,        \* per request slot: where its handler stands
  req,       \* per request slot: the request and the handler's locals
  out,       \* the response sent by the last step, with its request; NoOut otherwise
  used,      \* history: per code id, the requests that completed against it
  serial,    \* TRUE when the client sends a request only after the previous answer
  ads,       \* Ad table: id -> row or NoAd
  job,       \* the scheduled ad-expiration job: where it stands, and its clock
  lastWrite  \* history: per ad id, the inShow of the last statement that wrote it

vars == <<users, nextUid, codes, nextCid, now, pc, req, out, used, serial,
          ads, job, lastWrite>>

AdStore == <<ads, job, lastWrite>>

----------------------------------------------------------------------------
(* Credential hasher (utils/hash.js): a digest remembers the plaintext it  *)
(* was made from and nothing can be read back from it except by verify.    *)

(* a hasher whose digest does not depend on the plaintext *)
hashPasswordConstant(plain) == <<"bcrypt", "secret1">>

hashPassword(plain) == <<"bcrypt", plain>>

(* a comparison that accepts every password *)
verifyPasswordAlways(plain, hashed) == TRUE

verifyPassword(plain, hashed) ==
  IF hashed = NoPassword THEN FALSE ELSE hashed = <<"bcrypt", plain>>

(* signJwt({ sub, username }) *)
signJwt(sub, username) == [sub |-> sub, username |-> username]

(* String(Math.floor(100000 + Math.random() * 900000)) *)
GenCode(r) == 100000 + ((r * 900000) \div 1000)

CodeVals == {GenCode(r) : r \in Rands}

RECURSIVE String(_)
(* String(n): the decimal digits of n, without padding *)
String(n) == IF n < 10 THEN <<n>> ELSE Append(String(n \div 10), n % 10)

----------------------------------------------------------------------------
(* Store queries *)

Existing == {i \in UserIds : users[i] # NoUser}

(* prisma.user.findUnique({ where: { username } }) / ({ where: { email } }):
   the set holds at most one id, by the unique indexes *)
ByUsername(n) == {i \in Existing : users[i].username = n}
ByEmail(e) == {i \in Existing : users[i].email = e}

LiveCodes == {c \in CodeIds : codes[c] # NoRec}

(* prisma.emailVerification.findFirst({ where: { userId, code, consumed:false },
   orderBy: { id: 'desc' } }): the id found, or NoId *)
MatchingCodes(uid, code) ==
  {c \in LiveCodes : codes[c].userId = uid /\ codes[c].code = code /\ ~codes[c].consumed}

(* a lookup without the filter consumed:false *)
findFirstCodeAnyState(uid, code) ==
  LET all == {c \in LiveCodes : codes[c].userId = uid /\ codes[c].code = code} IN
    IF all = {} THEN NoId ELSE CHOOSE c \in all : \A d \in all : d <= c

findFirstCode(uid, code) ==
  IF MatchingCodes(uid, code) = {} THEN NoId
  ELSE CHOOSE c \in MatchingCodes(uid, code) : \A d \in MatchingCodes(uid, code) : d <= c

(* an expiry check that never fires *)
IsExpiredNever(c) == FALSE

(* record.expiresAt < new Date() *)
IsExpired(c) == codes[c].expiresAt < now

(* a delete that leaves the records of the user in place *)
CascadeDeleteNone(uid) == codes

(* ON DELETE CASCADE of EmailVerification_userId_fkey *)
CascadeDelete(uid) ==
  [c \in CodeIds |-> IF codes[c] # NoRec /\ codes[c].userId = uid THEN NoRec ELSE codes[c]]

FoundOrNone(ids) == IF ids = {} THEN {NoId} ELSE ids

Row(u) == IF u = NoId THEN NoUser ELSE users[u]

----------------------------------------------------------------------------
(* Requests and responses *)

Idle == [op |-> "none", cu |-> [id |-> NoId, role |-> NoRole], id |-> NoId,
         username |-> "undefined", identifier |-> "undefined", email |-> NoEmail,
         password |-> NoPassword, oldPassword |-> NoPassword, code |-> NoCode,
         role |-> NoRole, user |-> NoUser, uid |-> NoId, rec |-> NoId,
         bearer |-> NoToken, body |-> {}, rnd |-> NoRand,
         title |-> NoTitle, expiresAt |-> NoDate, inShow |-> NoFlag, ad |-> NoAd,
         clock |-> NoDate]

NoOut == [none |-> "response"]

Free(r) == pc[r] = "idle"

(* A request arrives: it takes the first free slot *)
Arrives(r) ==
  /\ out = NoOut
  /\ Free(r)
  /\ \A q \in Reqs : q < r => ~Free(q)
  /\ serial => \A q \in Reqs : Free(q)

(* The handler of slot r stands before the store operation named label *)
At(r, label) == out = NoOut /\ pc[r] = label

(* The handler of slot r goes on to its next store operation, with locals q *)
Goto(r, label, q) ==
  /\ pc' = [pc EXCEPT ![r] = label]
  /\ req' = [req EXCEPT ![r] = q]
  /\ out' = NoOut

(* The handler of slot r, with locals q, answers and ends *)
Respond(r, q, status, message, token, needs) ==
  /\ pc' = [pc EXCEPT ![r] = "idle"]
  /\ req' = [req EXCEPT ![r] = Idle]
  /\ out' = [req |-> q, status |-> status, message |-> message,
             token |-> token, needsVerification |-> needs]

(* the object prisma returns for the row of user i *)
View(i, row) ==
  [id |-> i, username |-> row.username, email |-> row.email, phone |-> row.phone,
   password |-> row.password, role |-> row.role, emailVerified |-> row.emailVerified]

(* sanitizeUser(user, currentUser): the object without its password for a
   privileged reader or the user itself, else username and phone *)
sanitizeUser(user, currentUser) ==
  IF currentUser.role \in {"SUPER_ADMIN", "ADMIN", "DATA_ENTRY"} \/ currentUser.id = user.id
  THEN [f \in DOMAIN user \ {"password"} |-> user[f]]
  ELSE [username |-> user.username, phone |-> user.phone]

(* the request with the user objects of its answer *)
WithUsers(q, views) == [q EXCEPT !.body = views]

(* user: sanitizeUser(user, user) *)
WithSelf(q) == WithUsers(q, {sanitizeUser(View(q.uid, q.user), View(q.uid, q.user))})

(* handleError(res, err): an exception that carries no status is answered 500 *)
handleError(r, q) == Respond(r, q, 500, "Internal server error", NoToken, FALSE)

StoreUnchanged == UNCHANGED <<users, nextUid, codes, nextCid, used, AdStore>>

Env == <<now, serial>>

----------------------------------------------------------------------------
(* no ad is stored and the job waits for its schedule *)
AdInit ==
  /\ ads = [a \in AdIds |-> NoAd]
  /\ job = [at |-> "idle", clock |-> NoDate]
  /\ lastWrite = [a \in AdIds |-> NoFlag]

InitStore ==
  /\ users = [i \in UserIds |->
                IF i = 1
                THEN [username |-> "root", email |-> "r@x.com",
                      password |-> hashPassword("secret1"),
                      role |-> "SUPER_ADMIN", emailVerified |-> TRUE,
                      phone |-> Phone]
                ELSE NoUser]
  /\ nextUid = 2
  /\ codes = [c \in CodeIds |-> NoRec]
  /\ nextCid = 1
  /\ now = 0
  /\ pc = [r \in Reqs |-> "idle"]
  /\ req = [r \in Reqs |-> Idle]
  /\ out = NoOut
  /\ used = [c \in CodeIds |-> <<>>]
  /\ AdInit

Init == InitStore /\ serial = FALSE

SeqInit == InitStore /\ serial = TRUE

(* The response of the last step has been received *)
Deliver ==
  /\ out # NoOut
  /\ out' = NoOut
  /\ UNCHANGED <<users, nextUid, codes, nextCid, now, pc, req, used, AdStore, serial>>

(* Time passes *)
Tick ==
  /\ out = NoOut
  /\ now < MaxTime
  /\ now' = now + 1
  /\ out' = NoOut
  /\ UNCHANGED <<users, nextUid, codes, nextCid, pc, req, used, AdStore, serial>>

----------------------------------------------------------------------------
(* sendVerificationCode(user), at the end of signup, login, resendCode and  *)
(* forgotPassword: the record is created, the mail is sent, and the caller  *)
(* answers.                                                                 *)

(* a record that expires the moment it is stored *)
NewCodeExpiringNow(uid, code) ==
  [userId |-> uid, code |-> code, expiresAt |-> now, consumed |-> FALSE]

(* data: { userId: user.id, code, expiresAt }, expiresAt = Date.now() + 15 min;
   consumed takes the column default false *)
NewCode(uid, code) ==
  [userId |-> uid, code |-> code, expiresAt |-> now + CodeTTL, consumed |-> FALSE]

(* an insert that retires the user's earlier codes *)
InsertCodeRetiringOlder(uid, code) ==
  [c \in CodeIds |->
     IF c = nextCid THEN NewCode(uid, code)
     ELSE IF codes[c] # NoRec /\ codes[c].userId = uid
          THEN [codes[c] EXCEPT !.consumed = TRUE]
          ELSE codes[c]]

(* the table after prisma.emailVerification.create: one more row, the others as
   they were *)
InsertCode(uid, code) == [codes EXCEPT ![nextCid] = NewCode(uid, code)]

(* a caller that logs the user in once the code is sent *)
IssuedWithToken(r, q) ==
  Respond(r, q, 200, "Verification code sent", signJwt(q.uid, q.user.username), FALSE)

Issued(r, q) ==
  CASE q.op = "signup" ->
         Respond(r, WithSelf(q), 201, "Verification code sent", NoToken, TRUE)
    [] q.op = "login" ->
         Respond(r, q, 403, "Email not verified. Verification code sent.", NoToken, TRUE)
    [] OTHER ->
         Respond(r, q, 200, "Verification code sent", NoToken, FALSE)

(* the outcomes of sendMail: the transport accepts the message or throws *)
Mails == {"sent", "failed"}

(* prisma.emailVerification.create(...), then sendMail(...): when the transport
   throws, the caller's catch answers through handleError and the record stays *)
IssueCode(r, mails) ==
  /\ At(r, "issue")
  /\ IF users[req[r].uid] = NoUser
     THEN \* the foreign key EmailVerification_userId_fkey rejects the insert
          /\ handleError(r, req[r])
          /\ UNCHANGED <<codes, nextCid>>
     ELSE /\ nextCid <= MaxCodes
          /\ \E rnd \in Rands, mail \in mails :
               LET q == [req[r] EXCEPT !.rec = nextCid, !.code = GenCode(rnd),
                                       !.rnd = rnd] IN
                 /\ codes' = InsertCode(req[r].uid, GenCode(rnd))
                 /\ IF mail = "sent" THEN Issued(r, q) ELSE handleError(r, q)
          /\ nextCid' = nextCid + 1
  /\ UNCHANGED <<users, nextUid, used, AdStore, Env>>

----------------------------------------------------------------------------
(* signup *)

(* the request is parsed; prisma.user.findUnique({ where: { username } }) *)
Signup(r, usernames, passwords, emails) ==
  /\ Arrives(r)
  /\ \E username \in usernames, password \in passwords, email \in emails :
       LET q == [Idle EXCEPT !.op = "signup", !.username = username,
                             !.password = password, !.email = email] IN
         IF ByUsername(username) # {}
         THEN Respond(r, q, 409, "Username exists", NoToken, FALSE)
         ELSE IF email # NoEmail THEN Goto(r, "su_email", q) ELSE Goto(r, "su_create", q)
  /\ UNCHANGED Env
  /\ StoreUnchanged

(* email && await prisma.user.findUnique({ where: { email } }) *)
SignupCheckEmail(r) ==
  /\ At(r, "su_email")
  /\ IF ByEmail(req[r].email) # {}
     THEN Respond(r, req[r], 409, "Email exists", NoToken, FALSE)
     ELSE Goto(r, "su_create", req[r])
  /\ UNCHANGED Env
  /\ StoreUnchanged

(* a row that is born verified *)
SignupRowVerified(q) ==
  [username |-> q.username, email |-> q.email, password |-> hashPassword(q.password),
   role |-> "USER", emailVerified |-> TRUE, phone |-> Phone]

SignupRow(q) ==
  [username |-> q.username, email |-> q.email, password |-> hashPassword(q.password),
   role |-> "USER", emailVerified |-> FALSE, phone |-> Phone]

(* prisma.user.create({ data: { username, password, email, phone, role:'USER' } }) *)
SignupCreate(r) ==
  /\ At(r, "su_create")
  /\ IF \/ ByUsername(req[r].username) # {}
        \/ (req[r].email # NoEmail /\ ByEmail(req[r].email) # {})
     THEN \* the unique index rejects the insert
          /\ handleError(r, req[r])
          /\ UNCHANGED <<users, nextUid>>
     ELSE /\ nextUid <= MaxUsers
          /\ users' = [users EXCEPT ![nextUid] = SignupRow(req[r])]
          /\ nextUid' = nextUid + 1
          /\ LET q == [req[r] EXCEPT !.uid = nextUid, !.user = SignupRow(req[r])] IN
               IF req[r].email # NoEmail
               THEN Goto(r, "issue", q)
               ELSE Respond(r, WithSelf(q), 201, "", signJwt(nextUid, req[r].username), FALSE)
  /\ UNCHANGED <<codes, nextCid, used, AdStore, Env>>

----------------------------------------------------------------------------
(* login *)

(* prisma.user.findFirst({ where: { OR: [{ username: identifier }, { email: identifier }] } }) *)
LoginMatches(identifier) ==
  {i \in Existing : users[i].username = identifier \/ users[i].email = identifier}

Login(r, identifiers, passwords) ==
  /\ Arrives(r)
  /\ \E identifier \in identifiers, password \in passwords :
       \E u \in FoundOrNone(LoginMatches(identifier)) :
         LET q == [Idle EXCEPT !.op = "login", !.identifier = identifier,
                               !.password = password, !.uid = u, !.user = Row(u)] IN
           IF u = NoId
           THEN Respond(r, q, 401, "email or username is wrong", NoToken, FALSE)
           ELSE IF ~verifyPassword(password, users[u].password)
                THEN Respond(r, q, 401, "password is wrong", NoToken, FALSE)
                ELSE IF users[u].email # NoEmail /\ ~users[u].emailVerified
                     THEN Goto(r, "issue", q)
                     ELSE Respond(r, WithSelf(q), 200, "", signJwt(u, users[u].username), FALSE)
  /\ UNCHANGED Env
  /\ StoreUnchanged

----------------------------------------------------------------------------
(* verifyEmail *)

(* const { code, email } = req.body; prisma.user.findUnique({ where: { email } }) *)
VerifyEmail(r, emails, codeVals) ==
  /\ Arrives(r)
  /\ \E email \in emails, code \in codeVals :
       \E u \in FoundOrNone(ByEmail(email)) :
         LET q == [Idle EXCEPT !.op = "verifyEmail", !.email = email, !.code = code,
                               !.uid = u, !.user = Row(u)] IN
           IF u = NoId
           THEN Respond(r, q, 404, "User not found", NoToken, FALSE)
           ELSE Goto(r, "ve_find", q)
  /\ UNCHANGED Env
  /\ StoreUnchanged

(* prisma.emailVerification.findFirst(...), then the two checks of the record;
   the handlers verifyEmail and resetPassword share the three lines *)
FindRecord(r, from, to) ==
  /\ At(r, from)
  /\ LET c == findFirstCode(req[r].uid, req[r].code) IN
       IF c = NoId
       THEN Respond(r, req[r], 400, "Invalid code", NoToken, FALSE)
       ELSE IF IsExpired(c)
            THEN Respond(r, [req[r] EXCEPT !.rec = c], 400, "Code expired", NoToken, FALSE)
            ELSE Goto(r, to, [req[r] EXCEPT !.rec = c])
  /\ UNCHANGED Env
  /\ StoreUnchanged

VerifyEmailFind(r) == FindRecord(r, "ve_find", "ve_tx")

(* an update that leaves the user as it is *)
MarkVerifiedNever(u) == users

(* user.update({ where:{ id:user.id }, data:{ emailVerified:true } }) *)
MarkVerified(u) == [users EXCEPT ![u].emailVerified = TRUE]

(* prisma.$transaction([ emailVerification.update({ where:{ id:record.id },
   data:{ consumed:true } }), user.update({ where:{ id:user.id },
   data:{ emailVerified:true } }) ]); an update of a missing row throws and
   the transaction rolls back *)
VerifyEmailTx(r) ==
  /\ At(r, "ve_tx")
  /\ LET c == req[r].rec
         u == req[r].uid IN
       IF codes[c] = NoRec \/ users[u] = NoUser
       THEN /\ handleError(r, req[r])
            /\ UNCHANGED <<users, codes, used>>
       ELSE /\ codes' = [codes EXCEPT ![c].consumed = TRUE]
            /\ users' = MarkVerified(u)
            /\ used' = [used EXCEPT ![c] = Append(@, "verifyEmail")]
            /\ Respond(r, WithSelf(req[r]), 200, "Email verified",
                       signJwt(u, req[r].user.username), FALSE)
  /\ UNCHANGED <<nextUid, nextCid, AdStore, Env>>

----------------------------------------------------------------------------
(* resendCode and forgotPassword *)

(* prisma.user.findUnique({ where: { email } }) *)
ResendCode(r, emails) ==
  /\ Arrives(r)
  /\ \E email \in emails :
       \E u \in FoundOrNone(ByEmail(email)) :
         LET q == [Idle EXCEPT !.op = "resendCode", !.email = email,
                               !.uid = u, !.user = Row(u)] IN
           IF u = NoId
           THEN Respond(r, q, 404, "User not found", NoToken, FALSE)
           ELSE IF users[u].email = NoEmail
                THEN Respond(r, q, 400, "No email to verify", NoToken, FALSE)
                ELSE Goto(r, "issue", q)
  /\ UNCHANGED Env
  /\ StoreUnchanged

ForgotPassword(r, emails) ==
  /\ Arrives(r)
  /\ \E email \in emails :
       \E u \in FoundOrNone(ByEmail(email)) :
         LET q == [Idle EXCEPT !.op = "forgotPassword", !.email = email,
                               !.uid = u, !.user = Row(u)] IN
           IF u = NoId
           THEN Respond(r, q, 404, "User not found", NoToken, FALSE)
           ELSE Goto(r, "issue", q)
  /\ UNCHANGED Env
  /\ StoreUnchanged

----------------------------------------------------------------------------
(* resetPassword *)

ResetPassword(r, emails, codeVals, passwords) ==
  /\ Arrives(r)
  /\ \E email \in emails, code \in codeVals, newPassword \in passwords :
       \E u \in FoundOrNone(ByEmail(email)) :
         LET q == [Idle EXCEPT !.op = "resetPassword", !.email = email, !.code = code,
                               !.password = newPassword, !.uid = u, !.user = Row(u)] IN
           IF u = NoId
           THEN Respond(r, q, 404, "User not found", NoToken, FALSE)
           ELSE Goto(r, "rp_find", q)
  /\ UNCHANGED Env
  /\ StoreUnchanged

ResetPasswordFind(r) == FindRecord(r, "rp_find", "rp_tx")

(* const hashed = await hashPassword(newPassword);
   prisma.$transaction([ user.update({ where:{ id:user.id }, data:{ password:hashed } }),
   emailVerification.update({ where:{ id:record.id }, data:{ consumed:true } }) ]) *)
ResetPasswordTx(r) ==
  /\ At(r, "rp_tx")
  /\ LET c == req[r].rec
         u == req[r].uid IN
       IF codes[c] = NoRec \/ users[u] = NoUser
       THEN /\ handleError(r, req[r])
            /\ UNCHANGED <<users, codes, used>>
       ELSE /\ users' = [users EXCEPT ![u].password = hashPassword(req[r].password)]
            /\ codes' = [codes EXCEPT ![c].consumed = TRUE]
            /\ used' = [used EXCEPT ![c] = Append(@, "resetPassword")]
            /\ Respond(r, req[r], 200, "Password reset successfully", NoToken, FALSE)
  /\ UNCHANGED <<nextUid, nextCid, AdStore, Env>>

----------------------------------------------------------------------------
(* Authentication of a request that carries a valid bearer token of user a. *)
(* The middleware looks the user up and attaches req.user.                  *)

(* a field the request or token leaves out *)
NoName == "undefined"

(* a bearer token that verifyJwt rejects: malformed, expired or signed with
   another key *)
InvalidToken == [invalid |-> "token"]

NoPayload == [none |-> "payload"]

(* verifyJwt(token): the payload of a token made by signJwt, else null *)
verifyJwt(token) == IF token \in {NoToken, InvalidToken} THEN NoPayload ELSE token

(* a token signed for subject a; the middleware reads nothing but sub *)
Bearer(a) == signJwt(a, NoName)

(* the Authorization headers of the requests: none, a bad token, or a good
   token of one of the ids *)
Bearers(ids) == {NoToken, InvalidToken} \cup {Bearer(a) : a \in ids}

(* middleware authMiddleware: req.user = { id, username, email, phone, status } *)
authMiddleware(a) == [id |-> a, role |-> NoRole]

(* the middleware module the user routes require, '../middlewares/authMiddleware':
   the identity carries the caller's role, as the role checks of the
   controllers and of checkRole presuppose *)
authMiddlewareWithRole(a) == [id |-> a, role |-> users[a].role]

NoIdentity == [id |-> NoId, role |-> NoRole]

(* the identities the middleware can attach for a bearer token: NoIdentity
   when it answers 401 *)
Identities(bearer) ==
  IF verifyJwt(bearer) = NoPayload THEN {NoIdentity}
  ELSE IF users[verifyJwt(bearer).sub] = NoUser THEN {NoIdentity}
       ELSE {authMiddleware(verifyJwt(bearer).sub),
             authMiddlewareWithRole(verifyJwt(bearer).sub)}

(* a refusal that answers 403 *)
UnauthenticatedAsForbidden(r, q) == Respond(r, q, 403, "Forbidden", NoToken, FALSE)

(* the three 401 answers of authMiddleware *)
Unauthenticated(r, q) ==
  Respond(r, q, 401,
          IF q.bearer = NoToken THEN "Missing token"
          ELSE IF verifyJwt(q.bearer) = NoPayload THEN "Invalid token"
               ELSE "User not found",
          NoToken, FALSE)

Privileged == {"SUPER_ADMIN", "ADMIN", "DATA_ENTRY"}


----------------------------------------------------------------------------
(* changePassword *)

ChangePassword(r, bearers, ids, passwords) ==
  /\ Arrives(r)
  /\ \E bearer \in bearers, id \in ids, oldPassword \in passwords, newPassword \in passwords :
       \E cu \in Identities(bearer) :
         LET q == [Idle EXCEPT !.op = "changePassword", !.cu = cu, !.bearer = bearer, !.id = id,
                               !.oldPassword = oldPassword, !.password = newPassword] IN
           IF cu.id = NoId THEN Unauthenticated(r, q) ELSE Goto(r, "cp_find", q)
  /\ UNCHANGED Env
  /\ StoreUnchanged

(* the role checks of changePassword: TRUE when the actor may go on *)
changePasswordAllowed(cu, id, target) ==
  LET isSelf == cu.id = id
      allowedRoles == {"SUPER_ADMIN", "ADMIN", "DATA_ENTRY"} IN
    /\ ~(~isSelf /\ cu.role \notin allowedRoles)
    /\ ~(cu.role = "ADMIN" /\ target.role = "SUPER_ADMIN")
    /\ ~(cu.role = "DATA_ENTRY" /\ target.role \in {"SUPER_ADMIN", "ADMIN"})

(* prisma.user.findUnique({ where:{ id:userId } }), the role checks and the
   check of the old password *)
ChangePasswordFind(r) ==
  /\ At(r, "cp_find")
  /\ LET id == req[r].id
         q == [req[r] EXCEPT !.uid = id, !.user = users[id]] IN
       IF users[id] = NoUser
       THEN Respond(r, req[r], 404, "User not found", NoToken, FALSE)
       ELSE IF ~changePasswordAllowed(req[r].cu, id, users[id])
            THEN Respond(r, q, 403, "No permission to change this password", NoToken, FALSE)
            ELSE IF ~verifyPassword(req[r].oldPassword, users[id].password)
                 THEN Respond(r, q, 400, "Old password incorrect", NoToken, FALSE)
                 ELSE Goto(r, "cp_update", q)
  /\ UNCHANGED Env
  /\ StoreUnchanged

(* prisma.user.update({ where:{ id:user.id }, data:{ password:hashed } }) *)
ChangePasswordUpdate(r) ==
  /\ At(r, "cp_update")
  /\ IF users[req[r].uid] = NoUser
     THEN /\ handleError(r, req[r])
          /\ users' = users
     ELSE /\ users' = [users EXCEPT ![req[r].uid].password = hashPassword(req[r].password)]
          /\ Respond(r, req[r], 200, "Password changed successfully", NoToken, FALSE)
  /\ UNCHANGED <<nextUid, codes, nextCid, used, AdStore, Env>>

----------------------------------------------------------------------------
(* updateUser; the body carries any of username, email, password, role *)

UpdateUser(r, bearers, ids, usernames, emails, passwords, roles) ==
  /\ Arrives(r)
  /\ \E bearer \in bearers, id \in ids, username \in usernames, email \in emails,
          password \in passwords, role \in roles :
       \E cu \in Identities(bearer) :
         LET q == [Idle EXCEPT !.op = "updateUser", !.cu = cu, !.bearer = bearer, !.id = id,
                               !.username = username, !.email = email,
                               !.password = password, !.role = role] IN
           IF cu.id = NoId THEN Unauthenticated(r, q) ELSE Goto(r, "uu_find", q)
  /\ UNCHANGED Env
  /\ StoreUnchanged

(* the lines after the conflict check: the verification mail of a changed
   email, then the checks of a password change *)
UpdateUserPassword(r, q) ==
  IF q.email # NoEmail /\ q.cu.role \notin Privileged
  THEN \* sendVerificationEmail is not defined in userController.js
       handleError(r, q)
  ELSE IF q.password # NoPassword /\ q.cu.role \notin {"SUPER_ADMIN", "ADMIN"}
       THEN Respond(r, q, 403, "cannot change the password here", NoToken, FALSE)
       ELSE IF /\ q.password # NoPassword
               /\ q.cu.role = "ADMIN" /\ q.user.role = "SUPER_ADMIN"
            THEN Respond(r, q, 403, "an admin cannot change the password of a super admin",
                         NoToken, FALSE)
            ELSE Goto(r, "uu_update", q)

mayAssignRoleAny(actorRole, role) == TRUE

(* if (validation.data.role): only SUPER_ADMIN and ADMIN edit a role, and an
   ADMIN does not assign SUPER_ADMIN *)
mayAssignRole(actorRole, role) ==
  /\ actorRole \in {"SUPER_ADMIN", "ADMIN"}
  /\ ~(actorRole = "ADMIN" /\ role = "SUPER_ADMIN")

(* prisma.user.findUnique({ where: { id } }) and the checks up to the conflict query *)
UpdateUserFind(r) ==
  /\ At(r, "uu_find")
  /\ LET id == req[r].id
         cu == req[r].cu
         q == [req[r] EXCEPT !.uid = id, !.user = users[id]]
         isSelf == cu.id = id
         canEditOthers == cu.role \in Privileged IN
       IF users[id] = NoUser
       THEN Respond(r, req[r], 404, "User not found", NoToken, FALSE)
       ELSE IF ~canEditOthers /\ ~isSelf
            THEN Respond(r, q, 403, "no permission to edit this account", NoToken, FALSE)
            ELSE IF q.role # NoRole /\ ~mayAssignRole(cu.role, q.role)
                 THEN Respond(r, q, 403,
                              IF cu.role \notin {"SUPER_ADMIN", "ADMIN"}
                              THEN "cannot edit the role"
                              ELSE "an admin cannot assign SUPER_ADMIN",
                              NoToken, FALSE)
                 ELSE IF q.username # NoName \/ q.email # NoEmail
                      THEN Goto(r, "uu_conflict", q)
                      ELSE UpdateUserPassword(r, q)
  /\ UNCHANGED Env
  /\ StoreUnchanged

(* prisma.user.findFirst({ where: { OR: [{ username }, { email }], NOT: { id } } }) *)
UpdateConflicts(q) ==
  {i \in Existing \ {q.id} :
     \/ (q.username # NoName /\ users[i].username = q.username)
     \/ (q.email # NoEmail /\ users[i].email = q.email)}

UpdateUserConflict(r) ==
  /\ At(r, "uu_conflict")
  /\ IF UpdateConflicts(req[r]) # {}
     THEN Respond(r, req[r], 409, "Username or email already exists", NoToken, FALSE)
     ELSE UpdateUserPassword(r, req[r])
  /\ UNCHANGED Env
  /\ StoreUnchanged

(* data: { ...validation.data, password, emailVerified }: the fields of the body,
   the new hash or else the hash read by findUnique, and the emailVerified read
   by findUnique *)
UpdatedRow(row, q) ==
  [username |-> IF q.username # NoName THEN q.username ELSE row.username,
   email |-> IF q.email # NoEmail THEN q.email ELSE row.email,
   role |-> IF q.role # NoRole THEN q.role ELSE row.role,
   password |-> IF q.password # NoPassword THEN hashPassword(q.password)
                ELSE q.user.password,
   emailVerified |-> q.user.emailVerified,
   phone |-> row.phone]

(* prisma.user.update({ where: { id }, data }) *)
UpdateUserUpdate(r) ==
  /\ At(r, "uu_update")
  /\ IF users[req[r].id] = NoUser \/ UpdateConflicts(req[r]) # {}
     THEN \* the row is gone, or a unique index rejects the update
          /\ handleError(r, req[r])
          /\ users' = users
     ELSE /\ users' = [users EXCEPT ![req[r].id] = UpdatedRow(@, req[r])]
          /\ Respond(r, WithUsers(req[r], {View(req[r].id,
                                                 UpdatedRow(users[req[r].id], req[r]))}),
                     200, "", NoToken, FALSE)
  /\ UNCHANGED <<nextUid, codes, nextCid, used, AdStore, Env>>

----------------------------------------------------------------------------
(* createUser, behind checkRole(['SUPER_ADMIN','ADMIN','DATA_ENTRY']) *)

(* the role set of the user routes' gate *)
allowedRoles == {"SUPER_ADMIN", "ADMIN", "DATA_ENTRY"}

(* checkRole(allowedRoles): "next" when the handler runs, else the message of
   its 403 answer *)
checkRole(allowed, cu) ==
  IF cu.id = NoId \/ cu.role = NoRole THEN "Forbidden: no role"
  ELSE IF cu.role \notin allowed THEN "no permission to use this service"
       ELSE "next"

allowedRolesToCreateAll(actorRole) == Roles

(* switch (req.user.role): the roles an actor may give to a new user *)
allowedRolesToCreate(actorRole) ==
  CASE actorRole = "SUPER_ADMIN" ->
         {"SUPER_ADMIN", "ADMIN", "DATA_ENTRY", "FACTORY_OWNER", "EMPLOYEE", "USER"}
    [] actorRole = "ADMIN" ->
         {"ADMIN", "DATA_ENTRY", "FACTORY_OWNER", "EMPLOYEE", "USER"}
    [] actorRole = "DATA_ENTRY" -> {"ADMIN", "DATA_ENTRY", "USER"}
    [] OTHER -> {}

CreateUser(r, bearers, usernames, emails, passwords, roles) ==
  /\ Arrives(r)
  /\ \E bearer \in bearers, username \in usernames, email \in emails,
          password \in passwords, role \in roles :
       \E cu \in Identities(bearer) :
         LET q == [Idle EXCEPT !.op = "createUser", !.cu = cu, !.bearer = bearer, !.username = username,
                               !.email = email, !.password = password, !.role = role] IN
           IF cu.id = NoId
           THEN Unauthenticated(r, q)
           ELSE IF checkRole(allowedRoles, cu) # "next"
                THEN Respond(r, q, 403, checkRole(allowedRoles, cu), NoToken, FALSE)
                ELSE IF cu.role \notin Privileged
                     THEN Respond(r, q, 403, "cannot create a user here", NoToken, FALSE)
                     ELSE IF role # NoRole /\ role \notin allowedRolesToCreate(cu.role)
                          THEN Respond(r, q, 403, "cannot create this kind of user",
                                       NoToken, FALSE)
                          ELSE Goto(r, "cu_find", q)
  /\ UNCHANGED Env
  /\ StoreUnchanged

(* prisma.user.findFirst({ where: { OR: [{ username }, { email }] } }) *)
CreateUserFind(r) ==
  /\ At(r, "cu_find")
  /\ IF ByUsername(req[r].username) \cup ByEmail(req[r].email) # {}
     THEN Respond(r, req[r], 409, "Username or email already exists", NoToken, FALSE)
     ELSE Goto(r, "cu_create", req[r])
  /\ UNCHANGED Env
  /\ StoreUnchanged

CreatedRow(q) ==
  [username |-> q.username, email |-> q.email, password |-> hashPassword(q.password),
   role |-> IF q.role # NoRole THEN q.role ELSE "USER",
   emailVerified |-> q.cu.role \in Privileged, phone |-> Phone]

(* prisma.user.create({ data: { username, email, phone, password, role, emailVerified } }) *)
CreateUserCreate(r) ==
  /\ At(r, "cu_create")
  /\ IF ByUsername(req[r].username) \cup ByEmail(req[r].email) # {}
     THEN /\ handleError(r, req[r])
          /\ UNCHANGED <<users, nextUid>>
     ELSE /\ nextUid <= MaxUsers
          /\ users' = [users EXCEPT ![nextUid] = CreatedRow(req[r])]
          /\ nextUid' = nextUid + 1
          /\ Respond(r, WithUsers([req[r] EXCEPT !.uid = nextUid],
                                   {View(nextUid, CreatedRow(req[r]))}),
                     201, "", NoToken, FALSE)
  /\ UNCHANGED <<codes, nextCid, used, AdStore, Env>>

----------------------------------------------------------------------------
(* deleteUser *)

DeleteUser(r, bearers, ids) ==
  /\ Arrives(r)
  /\ \E bearer \in bearers, id \in ids :
       \E cu \in Identities(bearer) :
         LET q == [Idle EXCEPT !.op = "deleteUser", !.cu = cu, !.bearer = bearer, !.id = id] IN
           IF cu.id = NoId THEN Unauthenticated(r, q) ELSE Goto(r, "du_find", q)
  /\ UNCHANGED Env
  /\ StoreUnchanged

adminOnSuperAdminNever(actorRole, targetRole) == FALSE

(* currentUser.role === 'ADMIN' && userToDelete.role === 'SUPER_ADMIN' *)
adminOnSuperAdmin(actorRole, targetRole) ==
  actorRole = "ADMIN" /\ targetRole = "SUPER_ADMIN"

(* prisma.user.findUnique({ where: { id } }) and the two checks *)
DeleteUserFind(r) ==
  /\ At(r, "du_find")
  /\ LET id == req[r].id
         cu == req[r].cu
         q == [req[r] EXCEPT !.uid = id, !.user = users[id]]
         isSelf == cu.id = id
         canDeleteOthers == cu.role \in Privileged IN
       IF users[id] = NoUser
       THEN Respond(r, req[r], 404, "User not found", NoToken, FALSE)
       ELSE IF ~canDeleteOthers /\ ~isSelf
            THEN Respond(r, q, 403, "no permission to delete this account", NoToken, FALSE)
            ELSE IF adminOnSuperAdmin(cu.role, users[id].role)
                 THEN Respond(r, q, 403, "an admin cannot delete a super admin",
                              NoToken, FALSE)
                 ELSE Goto(r, "du_delete", q)
  /\ UNCHANGED Env
  /\ StoreUnchanged

(* prisma.user.delete({ where: { id } }) *)
DeleteUserDelete(r) ==
  /\ At(r, "du_delete")
  /\ IF users[req[r].id] = NoUser
     THEN /\ handleError(r, req[r])
          /\ UNCHANGED <<users, codes>>
     ELSE /\ users' = [users EXCEPT ![req[r].id] = NoUser]
          /\ codes' = CascadeDelete(req[r].id)
          /\ Respond(r, req[r], 200, "User deleted successfully", NoToken, FALSE)
  /\ UNCHANGED <<nextUid, nextCid, used, AdStore, Env>>


----------------------------------------------------------------------------
(* getUser and getUsers *)

GetUser(r, bearers, ids) ==
  /\ Arrives(r)
  /\ \E bearer \in bearers, id \in ids :
       \E cu \in Identities(bearer) :
         LET q == [Idle EXCEPT !.op = "getUser", !.cu = cu, !.bearer = bearer, !.id = id] IN
           IF cu.id = NoId THEN Unauthenticated(r, q) ELSE Goto(r, "gu_find", q)
  /\ UNCHANGED Env
  /\ StoreUnchanged

(* prisma.user.findUnique({ where: { id } }); the answer is the whole row for
   a reader with full access and { id, username, phone } for any other *)
GetUserFind(r) ==
  /\ At(r, "gu_find")
  /\ LET id == req[r].id
         cu == req[r].cu
         q == [req[r] EXCEPT !.uid = id, !.user = users[id]]
         isSelf == cu.id = id
         hasFullAccess ==
           cu.role \in {"SUPER_ADMIN", "ADMIN", "DATA_ENTRY", "FACTORY_OWNER"} \/ isSelf IN
       IF users[id] = NoUser
       THEN Respond(r, req[r], 404, "User not found", NoToken, FALSE)
       ELSE IF ~hasFullAccess
            THEN Respond(r, WithUsers(q, {[id |-> id, username |-> users[id].username,
                                           phone |-> users[id].phone]}),
                         200, "", NoToken, FALSE)
            ELSE Respond(r, WithUsers(q, {View(id, users[id])}), 200, "", NoToken, FALSE)
  /\ UNCHANGED Env
  /\ StoreUnchanged

(* GET /users, behind checkRole(allowedRoles) *)
GetUsers(r, bearers) ==
  /\ Arrives(r)
  /\ \E bearer \in bearers :
       \E cu \in Identities(bearer) :
         LET q == [Idle EXCEPT !.op = "getUsers", !.cu = cu, !.bearer = bearer] IN
           IF cu.id = NoId
           THEN Unauthenticated(r, q)
           ELSE IF checkRole(allowedRoles, cu) # "next"
                THEN Respond(r, q, 403, checkRole(allowedRoles, cu), NoToken, FALSE)
                ELSE Goto(r, "gus_find", q)
  /\ UNCHANGED Env
  /\ StoreUnchanged

(* prisma.user.findMany({ orderBy: { username: 'asc' } }); res.json({ users }) *)
GetUsersFind(r) ==
  /\ At(r, "gus_find")
  /\ Respond(r, WithUsers(req[r], {View(i, users[i]) : i \in Existing}),
             200, "", NoToken, FALSE)
  /\ UNCHANGED Env
  /\ StoreUnchanged

----------------------------------------------------------------------------
(* Ads (controllers/adController.js) *)

StoredAds == {a \in AdIds : ads[a] # NoAd}

(* the ads a sweep at the given clock matches: where { inShow: true,
   expiresAt: { lte: now } } *)
Expired(table, clock) ==
  {a \in AdIds : table[a] # NoAd /\ table[a].inShow /\ table[a].expiresAt <= clock}

(* a sweep that hides every shown ad *)
ExpireAdsShown(table, clock) ==
  [a \in AdIds |-> IF table[a] # NoAd /\ table[a].inShow
                   THEN [table[a] EXCEPT !.inShow = FALSE] ELSE table[a]]

(* prisma.ad.updateMany({ where: { inShow: true, expiresAt: { lte: now } },
   data: { inShow: false } }) *)
ExpireAds(table, clock) ==
  [a \in AdIds |-> IF a \in Expired(table, clock)
                   THEN [table[a] EXCEPT !.inShow = FALSE] ELSE table[a]]

(* the rows a statement changed have been written by it *)
Written(table) ==
  [a \in AdIds |-> IF table[a] # ads[a] THEN <<table[a].inShow>> ELSE lastWrite[a]]

(* the object prisma returns for the row of ad a *)
AdView(a) ==
  [id |-> a, title |-> ads[a].title, expiresAt |-> ads[a].expiresAt,
   inShow |-> ads[a].inShow]

AdsUnchanged ==
  UNCHANGED <<users, nextUid, codes, nextCid, used, job, Env>>

(* createAd: the body is read and the expiry date computed; without a file
   the answer is 400 with a request to upload a photo *)
CreateAd(r, files, titles, dates) ==
  /\ Arrives(r)
  /\ \E file \in files, title \in titles, expiresAt \in dates :
       LET q == [Idle EXCEPT !.op = "createAd", !.title = title,
                             !.expiresAt = IF expiresAt # NoDate THEN expiresAt
                                           ELSE now + AdTTL] IN
         IF ~file
         THEN Respond(r, q, 400, "no photo", NoToken, FALSE)
         ELSE Goto(r, "ca_create", q)
  /\ UNCHANGED <<ads, lastWrite>>
  /\ AdsUnchanged

(* prisma.ad.create({ data: { title, expiresAt, inShow: false, files } }) *)
CreateAdCreate(r) ==
  /\ At(r, "ca_create")
  /\ StoredAds # AdIds
  /\ LET a == Cardinality(StoredAds) + 1 IN
       /\ ads' = [ads EXCEPT ![a] = [title |-> req[r].title,
                                     expiresAt |-> req[r].expiresAt,
                                     inShow |-> FALSE]]
       /\ lastWrite' = [lastWrite EXCEPT ![a] = <<FALSE>>]
       /\ Respond(r, [req[r] EXCEPT !.id = a], 201, "", NoToken, FALSE)
  /\ AdsUnchanged

(* showAd and hideAd: prisma.ad.findUnique({ where: { id } }) *)
FindAd(r, op, ids, label) ==
  /\ Arrives(r)
  /\ \E id \in ids :
       LET q == [Idle EXCEPT !.op = op, !.id = id, !.ad = ads[id]] IN
         IF ads[id] = NoAd
         THEN Respond(r, q, 404, "Ad not found", NoToken, FALSE)
         ELSE Goto(r, label, q)
  /\ UNCHANGED <<ads, lastWrite>>
  /\ AdsUnchanged

(* prisma.ad.update({ where: { id }, data: { inShow } }) *)
SetInShow(r, label, inShow) ==
  /\ At(r, label)
  /\ IF ads[req[r].id] = NoAd
     THEN /\ handleError(r, req[r])
          /\ UNCHANGED <<ads, lastWrite>>
     ELSE /\ ads' = [ads EXCEPT ![req[r].id].inShow = inShow]
          /\ lastWrite' = [lastWrite EXCEPT ![req[r].id] = <<inShow>>]
          /\ Respond(r, req[r], 200, "", NoToken, FALSE)
  /\ AdsUnchanged

ShowAd(r, ids) == FindAd(r, "showAd", ids, "sa_update")

ShowAdUpdate(r) == SetInShow(r, "sa_update", TRUE)

HideAd(r, ids) == FindAd(r, "hideAd", ids, "ha_update")

HideAdUpdate(r) == SetInShow(r, "ha_update", FALSE)

(* updateAd: const { title, expiresAt, inShow } = req.body;
   prisma.ad.findUnique({ where: { id } }) *)
UpdateAd(r, ids, titles, dates, flags) ==
  /\ Arrives(r)
  /\ \E id \in ids, title \in titles, expiresAt \in dates, inShow \in flags :
       LET q == [Idle EXCEPT !.op = "updateAd", !.id = id, !.title = title,
                             !.expiresAt = expiresAt, !.inShow = inShow,
                             !.ad = ads[id]] IN
         IF ads[id] = NoAd
         THEN Respond(r, q, 404, "Ad not found", NoToken, FALSE)
         ELSE Goto(r, "ua_update", q)
  /\ UNCHANGED <<ads, lastWrite>>
  /\ AdsUnchanged

(* prisma.ad.update({ where: { id }, data: { title,
   expiresAt: expiresAt ? new Date(expiresAt) : ad.expiresAt,
   inShow: inShow !== undefined ? inShow : ad.inShow } }): the fields the
   body leaves out are written back as they were read *)
UpdateAdUpdate(r) ==
  /\ At(r, "ua_update")
  /\ LET q == req[r] IN
       IF ads[q.id] = NoAd
       THEN /\ handleError(r, q)
            /\ UNCHANGED <<ads, lastWrite>>
       ELSE LET row == [title |-> IF q.title # NoTitle THEN q.title
                                  ELSE ads[q.id].title,
                        expiresAt |-> IF q.expiresAt # NoDate THEN q.expiresAt
                                      ELSE q.ad.expiresAt,
                        inShow |-> IF q.inShow # NoFlag THEN q.inShow[1]
                                   ELSE q.ad.inShow] IN
              /\ ads' = [ads EXCEPT ![q.id] = row]
              /\ lastWrite' = [lastWrite EXCEPT ![q.id] = <<row.inShow>>]
              /\ Respond(r, q, 200, "", NoToken, FALSE)
  /\ AdsUnchanged

(* getShownAds: const now = new Date(); prisma.ad.updateMany(...) *)
GetShownAds(r) ==
  /\ Arrives(r)
  /\ ads' = ExpireAds(ads, now)
  /\ lastWrite' = Written(ExpireAds(ads, now))
  /\ Goto(r, "gs_find", [Idle EXCEPT !.op = "getShownAds", !.clock = now])
  /\ AdsUnchanged

(* prisma.ad.findMany({ where: { inShow: true, expiresAt: { gt: now } } }) *)
GetShownAdsFind(r) ==
  /\ At(r, "gs_find")
  /\ Respond(r, [req[r] EXCEPT !.body =
                   {AdView(a) : a \in {b \in StoredAds :
                                         /\ ads[b].inShow
                                         /\ ads[b].expiresAt > req[r].clock}}],
             200, "", NoToken, FALSE)
  /\ UNCHANGED <<ads, lastWrite>>
  /\ AdsUnchanged

(* cron.schedule('0 0 * * *', ...): the job fires, const now = new Date() *)
JobFires ==
  /\ out = NoOut
  /\ job.at = "idle"
  /\ job' = [at |-> "updateMany", clock |-> now]
  /\ UNCHANGED <<users, nextUid, codes, nextCid, used, ads, lastWrite, pc, req, out, Env>>

(* the store runs the statement of the job *)
JobUpdateMany ==
  /\ out = NoOut
  /\ job.at = "updateMany"
  /\ ads' = ExpireAds(ads, job.clock)
  /\ lastWrite' = Written(ExpireAds(ads, job.clock))
  /\ job' = [at |-> "idle", clock |-> NoDate]
  /\ UNCHANGED <<users, nextUid, codes, nextCid, used, pc, req, out, Env>>

----------------------------------------------------------------------------
Identifiers == Usernames \cup Emails

(* Requests are served one at a time, over all the inputs *)
SeqNext ==
  \/ Deliver
  \/ Tick
  \/ \E r \in Reqs :
       \/ Signup(r, Usernames, Passwords, Emails \cup {NoEmail})
       \/ SignupCheckEmail(r)
       \/ SignupCreate(r)
       \/ IssueCode(r, Mails)
       \/ Login(r, Identifiers, Passwords)
       \/ VerifyEmail(r, Emails, CodeVals)
       \/ VerifyEmailFind(r)
       \/ VerifyEmailTx(r)
       \/ ResendCode(r, Emails)
       \/ ForgotPassword(r, Emails)
       \/ ResetPassword(r, Emails, CodeVals, Passwords)
       \/ ResetPasswordFind(r)
       \/ ResetPasswordTx(r)

SeqSpec == SeqInit /\ [][SeqNext]_vars

(* Two requests in flight, all about one account *)
Next ==
  \/ Deliver
  \/ Tick
  \/ \E r \in Reqs :
       \/ Signup(r, {"alice"}, {"secret1"}, {"a@x.com", NoEmail})
       \/ SignupCheckEmail(r)
       \/ SignupCreate(r)
       \/ IssueCode(r, Mails)
       \/ Login(r, {"alice"}, Passwords)
       \/ VerifyEmail(r, {"a@x.com"}, CodeVals)
       \/ VerifyEmailFind(r)
       \/ VerifyEmailTx(r)
       \/ ResendCode(r, {"a@x.com"})
       \/ ForgotPassword(r, {"a@x.com"})
       \/ ResetPassword(r, {"a@x.com"}, CodeVals, Passwords)
       \/ ResetPasswordFind(r)
       \/ ResetPasswordTx(r)

Spec == Init /\ [][Next]_vars

(* Issuing and verifying the codes of one account, two requests in flight *)
IssueNext ==
  \/ Deliver
  \/ Tick
  \/ \E r \in Reqs :
       \/ Signup(r, {"alice"}, {"secret1"}, {"a@x.com"})
       \/ SignupCheckEmail(r)
       \/ SignupCreate(r)
       \/ IssueCode(r, Mails)
       \/ Login(r, {"alice"}, Passwords)
       \/ VerifyEmail(r, {"a@x.com"}, CodeVals)
       \/ VerifyEmailFind(r)
       \/ VerifyEmailTx(r)
       \/ ResendCode(r, {"a@x.com"})
       \/ ForgotPassword(r, {"a@x.com"})

IssueSpec == Init /\ [][IssueNext]_vars

(* User management, the requests served one at a time *)
AdminNext ==
  \/ Deliver
  \/ \E r \in Reqs :
       \/ CreateUser(r, Bearers(UserIds), {"alice"}, {"a@x.com"}, {"secret1"}, Roles \cup {NoRole})
       \/ CreateUserFind(r)
       \/ CreateUserCreate(r)
       \/ UpdateUser(r, Bearers(UserIds), UserIds, {NoName, "alice"}, {NoEmail, "a@x.com"},
                     Passwords \cup {NoPassword}, Roles \cup {NoRole})
       \/ UpdateUserFind(r)
       \/ UpdateUserConflict(r)
       \/ UpdateUserUpdate(r)
       \/ ChangePassword(r, Bearers(UserIds), UserIds, Passwords)
       \/ ChangePasswordFind(r)
       \/ ChangePasswordUpdate(r)
       \/ DeleteUser(r, Bearers(UserIds), UserIds)
       \/ DeleteUserFind(r)
       \/ DeleteUserDelete(r)
       \/ GetUser(r, Bearers(UserIds), UserIds)
       \/ GetUserFind(r)
       \/ GetUsers(r, Bearers(UserIds))
       \/ GetUsersFind(r)

AdminSpec == SeqInit /\ [][AdminNext]_vars

(* Verification and reset of one account while an administrator edits or
   deletes it, two requests in flight *)
TxNext ==
  \/ Deliver
  \/ \E r \in Reqs :
       \/ Signup(r, {"alice"}, {"secret1"}, {"a@x.com"})
       \/ SignupCheckEmail(r)
       \/ SignupCreate(r)
       \/ IssueCode(r, Mails)
       \/ VerifyEmail(r, {"a@x.com"}, CodeVals)
       \/ VerifyEmailFind(r)
       \/ VerifyEmailTx(r)
       \/ ForgotPassword(r, {"a@x.com"})
       \/ ResetPassword(r, {"a@x.com"}, CodeVals, {"secret2"})
       \/ ResetPasswordFind(r)
       \/ ResetPasswordTx(r)
       \/ UpdateUser(r, {Bearer(1)}, UserIds, {NoName}, {NoEmail}, {NoPassword}, {NoRole})
       \/ UpdateUserFind(r)
       \/ UpdateUserUpdate(r)
       \/ DeleteUser(r, {Bearer(1)}, UserIds)
       \/ DeleteUserFind(r)
       \/ DeleteUserDelete(r)

TxSpec == Init /\ [][TxNext]_vars

(* The job and the ad handlers, two requests in flight *)
AdNext ==
  \/ Deliver
  \/ Tick
  \/ JobFires
  \/ JobUpdateMany
  \/ \E r \in Reqs :
       \/ CreateAd(r, BOOLEAN, {"offer"}, {1, NoDate})
       \/ CreateAdCreate(r)
       \/ ShowAd(r, AdIds)
       \/ ShowAdUpdate(r)
       \/ HideAd(r, AdIds)
       \/ HideAdUpdate(r)
       \/ UpdateAd(r, {1}, {NoTitle}, {NoDate, 2}, {NoFlag, <<TRUE>>})
       \/ UpdateAdUpdate(r)
       \/ GetShownAds(r)
       \/ GetShownAdsFind(r)

AdSpec == Init /\ [][AdNext]_vars

(* signups whose username may be spelled like an email address, and logins;
   the requests are served one at a time *)
IdentNext ==
  \/ Deliver
  \/ Tick
  \/ \E r \in Reqs :
       \/ Signup(r, Usernames \cup Emails, {"secret1"}, {NoEmail, "a@x.com"})
       \/ SignupCheckEmail(r)
       \/ SignupCreate(r)
       \/ IssueCode(r, Mails)
       \/ Login(r, Identifiers, Passwords)

IdentSpec == SeqInit /\ [][IdentNext]_vars

(* one account whose first code is issued by signup and whose later codes are
   issued by forgotPassword, presented to verifyEmail and resetPassword; the
   requests are served one at a time *)
PurposeNext ==
  \/ Deliver
  \/ Tick
  \/ \E r \in Reqs :
       \/ Signup(r, {"alice"}, {"secret1"}, {"a@x.com"})
       \/ SignupCheckEmail(r)
       \/ SignupCreate(r)
       \/ IssueCode(r, Mails)
       \/ ForgotPassword(r, {"a@x.com"})
       \/ VerifyEmail(r, {"a@x.com"}, CodeVals)
       \/ VerifyEmailFind(r)
       \/ VerifyEmailTx(r)
       \/ ResetPassword(r, {"a@x.com"}, CodeVals, {"secret2"})
       \/ ResetPasswordFind(r)
       \/ ResetPasswordTx(r)

PurposeSpec == SeqInit /\ [][PurposeNext]_vars

(* the ways a user gets a role: signup, createUser and updateUser, with two
   requests in flight *)
RoleNext ==
  \/ Deliver
  \/ \E r \in Reqs :
       \/ Signup(r, {"alice"}, {"secret1"}, {NoEmail})
       \/ SignupCreate(r)
       \/ CreateUser(r, {Bearer(a) : a \in UserIds}, {"alice"}, {"a@x.com"}, {"secret1"},
                     {"SUPER_ADMIN", "ADMIN"})
       \/ CreateUserFind(r)
       \/ CreateUserCreate(r)
       \/ UpdateUser(r, {Bearer(a) : a \in UserIds}, UserIds, {NoName}, {NoEmail},
                     {NoPassword}, {"SUPER_ADMIN", "ADMIN"})
       \/ UpdateUserFind(r)
       \/ UpdateUserUpdate(r)

RoleSpec == Init /\ [][RoleNext]_vars

(* A store with the SUPER_ADMIN root and the ADMIN alice; every request is
   sent by alice and aims at root, so alice stays an ADMIN; the requests are
   served one at a time. *)
AdminsInit ==
  /\ users = [i \in UserIds |->
                IF i = 1
                THEN [username |-> "root", email |-> "r@x.com",
                      password |-> hashPassword("secret1"),
                      role |-> "SUPER_ADMIN", emailVerified |-> TRUE,
                      phone |-> Phone]
                ELSE IF i = 2
                     THEN [username |-> "alice", email |-> "a@x.com",
                           password |-> hashPassword("secret2"),
                           role |-> "ADMIN", emailVerified |-> TRUE,
                           phone |-> Phone]
                     ELSE NoUser]
  /\ nextUid = 3
  /\ codes = [c \in CodeIds |-> NoRec]
  /\ nextCid = 1
  /\ now = 0
  /\ pc = [r \in Reqs |-> "idle"]
  /\ req = [r \in Reqs |-> Idle]
  /\ out = NoOut
  /\ used = [c \in CodeIds |-> <<>>]
  /\ AdInit
  /\ serial = TRUE

AdminsNext ==
  \/ Deliver
  \/ \E r \in Reqs :
       \/ UpdateUser(r, {Bearer(2)}, {1}, {NoName, "alice"}, {NoEmail, "a@x.com"},
                     {NoPassword, "secret2"}, {NoRole} \cup Roles)
       \/ UpdateUserFind(r)
       \/ UpdateUserConflict(r)
       \/ UpdateUserUpdate(r)
       \/ ChangePassword(r, {Bearer(2)}, {1}, {"secret2"})
       \/ ChangePasswordFind(r)
       \/ ChangePasswordUpdate(r)
       \/ DeleteUser(r, {Bearer(2)}, {1})
       \/ DeleteUserFind(r)
       \/ DeleteUserDelete(r)

AdminsSpec == AdminsInit /\ [][AdminsNext]_vars

----------------------------------------------------------------------------
(* Properties *)

Range(s) == {s[i] : i \in 1..Len(s)}

Answered(op) == out # NoOut /\ out.req.op = op

(* the handler in slot r performs its store operation at label *)
StepAt(r, label) == At(r, label) /\ pc'[r] # label

InvalidCode(o) == o # NoOut /\ o.status = 400 /\ o.message = "Invalid code" /\ o.token = NoToken

CodeExpired(o) == o # NoOut /\ o.status = 400 /\ o.message = "Code expired" /\ o.token = NoToken

(* some record of user u with value v was consumed by a request of kind op *)
ConsumedBy(op, u, v) ==
  \E c \in LiveCodes :
    /\ codes[c].userId = u /\ codes[c].code = v
    /\ codes[c].consumed /\ op \in Range(used[c])

(* C1: at most one request ever completes successfully against a code record,
   whatever the interleaving of verify-email and reset-password requests. *)
C1_ConsumedOnce == \A c \in CodeIds : Len(used[c]) <= 1

(* C2, as stated: verify-email with the correct, unconsumed, unexpired code sets
   emailVerified and returns a token; every later verify-email with the same
   code for the same user answers InvalidCode and returns no token. *)
C2_SecondVerifyInvalid ==
  Answered("verifyEmail") =>
    /\ (out.req.rec # NoId /\ out.message # "Code expired") =>
         /\ out.status = 200 /\ out.token # NoToken
         /\ users[out.req.uid].emailVerified
    /\ (\E c \in LiveCodes \ {out.req.rec} :
          /\ codes[c].userId = out.req.uid /\ codes[c].code = out.req.code
          /\ "verifyEmail" \in Range(used[c]))
       => InvalidCode(out)

(* C2, amended: verify-email with a matching, unconsumed, unexpired record sets
   emailVerified, marks the record consumed and returns a token; a later
   verify-email with the same code for the same user answers InvalidCode and
   returns no token when no other unconsumed record of the user carries the
   same value. *)
C2_SecondVerifyInvalidUnlessDuplicate ==
  [][\A r \in Reqs :
       /\ StepAt(r, "ve_find") =>
            LET u == req[r].uid
                v == req[r].code
                m == findFirstCode(u, v) IN
              /\ (m # NoId /\ codes[m].expiresAt >= now) =>
                   (pc'[r] = "ve_tx" /\ req'[r].rec = m /\ ~codes[m].consumed)
              /\ (ConsumedBy("verifyEmail", u, v)
                    /\ \A c \in LiveCodes :
                         (codes[c].userId = u /\ codes[c].code = v) => codes[c].consumed)
                 => InvalidCode(out')
       /\ (StepAt(r, "ve_tx") /\ users[req[r].uid] # NoUser /\ codes[req[r].rec] # NoRec) =>
            /\ out'.status = 200 /\ out'.token = signJwt(req[r].uid, req[r].user.username)
            /\ users'[req[r].uid].emailVerified
            /\ codes'[req[r].rec].consumed]_vars

C2_Witness ==
  /\ Answered("verifyEmail") /\ InvalidCode(out)
  /\ ConsumedBy("verifyEmail", out.req.uid, out.req.code)

(* C4: verify-email and reset-password, presented with a matching unconsumed
   record whose expiresAt has passed, answer CodeExpired and change neither the
   record nor the user; the same request, sent again, finds the same expired
   record, and an expired record stays expired as time passes. *)
C4_ExpiredCodeLeftUnconsumed ==
  [][/\ \A r \in Reqs :
          (StepAt(r, "ve_find") \/ StepAt(r, "rp_find")) =>
            LET u == req[r].uid
                v == req[r].code
                m == findFirstCode(u, v) IN
              (m # NoId /\ codes[m].expiresAt < now) =>
                /\ CodeExpired(out')
                /\ codes' = codes /\ users' = users
                /\ ~codes'[m].consumed /\ codes'[m].expiresAt < now'
                /\ \A d \in CodeIds :
                     (/\ codes'[d] # NoRec /\ codes'[d].userId = u
                      /\ codes'[d].code = v /\ ~codes'[d].consumed) => d <= m
     /\ \A c \in LiveCodes :
          (codes[c].expiresAt < now /\ codes'[c] # NoRec) => codes'[c].expiresAt < now']_vars

C4_Witness ==
  /\ CodeExpired(out)
  /\ out.req.op \in {"verifyEmail", "resetPassword"}
  /\ ~codes[out.req.rec].consumed
  /\ codes[out.req.rec].expiresAt < now

(* C5: a login with correct credentials for a user that has an email and
   emailVerified = false returns no token; it stores one new code for that
   user and answers NeedsVerification, or 500 when the mail transport throws. *)
C5_UnverifiedLoginGetsNoToken ==
  (/\ Answered("login")
   /\ out.req.uid # NoId
   /\ verifyPassword(out.req.password, out.req.user.password)
   /\ out.req.user.email # NoEmail
   /\ ~out.req.user.emailVerified)
  => /\ out.token = NoToken
     /\ users[out.req.uid] # NoUser =>
          /\ \/ out.status = 403 /\ out.needsVerification
             \/ out.status = 500 /\ out.message = "Internal server error"
          /\ out.req.rec = nextCid - 1
          /\ codes[out.req.rec] = [userId |-> out.req.uid, code |-> out.req.code,
                                   expiresAt |-> now + CodeTTL, consumed |-> FALSE]

C5_Witness ==
  /\ Answered("login") /\ out.status = 403 /\ out.needsVerification
  /\ ~users[out.req.uid].emailVerified

(* C6: after a successful signup that supplies an email the response has
   needsVerification = true and no token, the new user has role USER and
   emailVerified = false, and exactly one code record exists for the new user,
   unconsumed. *)
C6_SignupWithEmail ==
  (Answered("signup") /\ out.status = 201 /\ out.req.email # NoEmail) =>
    /\ out.needsVerification /\ out.token = NoToken
    /\ users[out.req.uid].username = out.req.username
    /\ users[out.req.uid].email = out.req.email
    /\ users[out.req.uid].role = "USER"
    /\ ~users[out.req.uid].emailVerified
    /\ {c \in LiveCodes : codes[c].userId = out.req.uid} = {out.req.rec}
    /\ ~codes[out.req.rec].consumed

C6_Witness == Answered("signup") /\ out.status = 201 /\ out.req.email # NoEmail

(* C7: after a successful signup that supplies no email the created user has
   role USER and emailVerified = true, a token is returned at once, and no code
   record is created for that user. *)
C7_SignupWithoutEmail ==
  (Answered("signup") /\ out.status = 201 /\ out.req.email = NoEmail) =>
    /\ users[out.req.uid].role = "USER"
    /\ users[out.req.uid].emailVerified
    /\ out.token = signJwt(out.req.uid, out.req.username)
    /\ {c \in LiveCodes : codes[c].userId = out.req.uid} = {}

(* verify-email accepts value v for user u *)
Accepts(u, v) ==
  \E c \in LiveCodes :
    /\ codes[c].userId = u /\ codes[c].code = v /\ ~codes[c].consumed
    /\ \A d \in LiveCodes :
         (codes[d].userId = u /\ codes[d].code = v /\ ~codes[d].consumed) => d <= c
    /\ codes[c].expiresAt >= now

(* C8: issuing a further code for a user (resend-code, login while unverified,
   forgot-password) leaves every earlier record as it was, and every value
   verify-email accepted before it still accepts afterwards; consuming one
   record leaves the other records unconsumed. *)
C8_EarlierCodesStayValid ==
  [][\A r \in Reqs :
       /\ StepAt(r, "issue") =>
            /\ \A c \in LiveCodes : codes'[c] = codes[c]
            /\ \A u \in UserIds, v \in CodeVals : Accepts(u, v) => Accepts(u, v)'
       /\ (StepAt(r, "ve_tx") \/ StepAt(r, "rp_tx")) =>
            \A c \in LiveCodes \ {req[r].rec} : codes'[c] = codes[c]]_vars

C8_Witness ==
  /\ out # NoOut /\ out.req.op \in {"resendCode", "login", "forgotPassword"}
  /\ out.status \in {200, 403}
  /\ \E c \in LiveCodes \ {out.req.rec} :
       /\ codes[c].userId = out.req.uid
       /\ Accepts(out.req.uid, codes[c].code)
       /\ codes[c].code # out.req.code

(* C9, as stated: after a successful reset-password the stored hash verifies
   newPassword and no longer verifies the previous password; the code used is
   answered InvalidCode by every later reset-password or verify-email; when the
   code does not match, the hash is unchanged. *)
C9_ResetReplacesPassword ==
  [][\A r \in Reqs :
       /\ (StepAt(r, "rp_tx") /\ out'.status = 200) =>
            /\ verifyPassword(req[r].password, users'[req[r].uid].password)
            /\ \A p \in Passwords :
                 verifyPassword(p, users[req[r].uid].password)
                   => ~verifyPassword(p, users'[req[r].uid].password)
            /\ codes'[req[r].rec].consumed
       /\ ((StepAt(r, "ve_find") \/ StepAt(r, "rp_find"))
             /\ ConsumedBy("resetPassword", req[r].uid, req[r].code))
          => InvalidCode(out')
       /\ (StepAt(r, "rp_find") /\ findFirstCode(req[r].uid, req[r].code) = NoId)
          => (InvalidCode(out') /\ users' = users)]_vars

(* C9, amended: after a successful reset-password the stored hash verifies
   newPassword and no longer verifies any other password; a later
   reset-password or verify-email with the code used is answered InvalidCode
   when no other unconsumed record of the user carries the same value; when
   the code does not match, the hash is unchanged. *)
C9_ResetReplacesPasswordUnlessSame ==
  [][\A r \in Reqs :
       /\ (StepAt(r, "rp_tx") /\ out'.status = 200) =>
            /\ verifyPassword(req[r].password, users'[req[r].uid].password)
            /\ \A p \in Passwords \ {req[r].password} :
                 ~verifyPassword(p, users'[req[r].uid].password)
            /\ codes'[req[r].rec].consumed
       /\ ((StepAt(r, "ve_find") \/ StepAt(r, "rp_find"))
             /\ ConsumedBy("resetPassword", req[r].uid, req[r].code)
             /\ \A c \in LiveCodes :
                  (codes[c].userId = req[r].uid /\ codes[c].code = req[r].code)
                    => codes[c].consumed)
          => InvalidCode(out')
       /\ (StepAt(r, "rp_find") /\ findFirstCode(req[r].uid, req[r].code) = NoId)
          => (InvalidCode(out') /\ users' = users)]_vars

C9_Witness ==
  /\ Answered("resetPassword") /\ out.status = 200
  /\ verifyPassword(out.req.password, users[out.req.uid].password)
  /\ ~verifyPassword(out.req.password, out.req.user.password)

----------------------------------------------------------------------------
(* C3: in every reachable state, failures part-way through verifyEmail or
   resetPassword included, the consumption of a code and the change of its
   owner go together: a code consumed by verifyEmail has an owner whose
   emailVerified is true; the step that consumes a code for resetPassword
   writes the new hash of the owner in the same step; and a transaction step
   that leaves the code unconsumed leaves the user as it was *)
ConsumedByVerifyImpliesVerified ==
  \A c \in LiveCodes :
    (codes[c].consumed /\ "verifyEmail" \in Range(used[c])) =>
      users[codes[c].userId].emailVerified

TxAllOrNothing ==
  \A r \in Reqs :
    /\ StepAt(r, "ve_tx") =>
         LET c == req[r].rec
             u == req[r].uid IN
           \/ /\ codes'[c] # NoRec /\ codes'[c].consumed
              /\ users'[u] # NoUser /\ users'[u].emailVerified
           \/ codes' = codes /\ users' = users
    /\ StepAt(r, "rp_tx") =>
         LET c == req[r].rec
             u == req[r].uid IN
           \/ /\ codes'[c] # NoRec /\ codes'[c].consumed
              /\ users'[u] # NoUser
              /\ users'[u].password = <<"bcrypt", req[r].password>>
           \/ codes' = codes /\ users' = users

C3_ConsumptionAndMutationTogether ==
  /\ []ConsumedByVerifyImpliesVerified
  /\ [][TxAllOrNothing]_vars

----------------------------------------------------------------------------
(* C10: a request that replaces the password of another account -- updateUser
   with a password in the body, or changePassword on an id that is not the
   caller's -- succeeds only for an actor whose role is SUPER_ADMIN or ADMIN,
   and never for an ADMIN when the target is a SUPER_ADMIN; any other actor
   is refused and the hash of the target stays as it was *)
ReplacesOthersPassword(o) ==
  /\ o # NoOut
  /\ \/ o.req.op = "changePassword"
     \/ o.req.op = "updateUser" /\ o.req.password # NoPassword
  /\ o.req.user # NoUser
  /\ o.req.cu.id # o.req.id

MayReplacePassword(actorRole, targetRole) ==
  /\ actorRole \in {"SUPER_ADMIN", "ADMIN"}
  /\ ~(actorRole = "ADMIN" /\ targetRole = "SUPER_ADMIN")

C10_OnlyAdminsReplacePasswords ==
  ReplacesOthersPassword(out) =>
    LET actor == users[out.req.cu.id]
        target == out.req.user IN
      \/ MayReplacePassword(actor.role, target.role)
      \/ /\ out.status # 200
         /\ users[out.req.id].password = target.password

----------------------------------------------------------------------------
(* C11: changePassword replaces the stored hash of a user only when the
   oldPassword of the request verifies against the hash stored for that user,
   whatever the role of the actor and also when a privileged actor changes
   the own password; when it does not verify the request fails and the hash
   stays as it was *)
C11_OldPasswordGuardsChange ==
  (Answered("changePassword") /\ out.req.user # NoUser) =>
    LET matches == out.req.user.password = <<"bcrypt", out.req.oldPassword>> IN
      /\ out.status = 200 =>
           /\ matches
           /\ users[out.req.id].password = <<"bcrypt", out.req.password>>
      /\ ~matches =>
           /\ out.status # 200
           /\ users[out.req.id].password = out.req.user.password

C11_Witness ==
  /\ Answered("changePassword") /\ out.status = 200
  /\ out.req.cu.id = out.req.id /\ out.req.cu.role = "SUPER_ADMIN"
  /\ users[out.req.id].password # out.req.user.password

(* the answer o is a refusal of checkRole: the handler did not run *)
GateRefused(o) ==
  /\ o # NoOut /\ o.status = 403
  /\ o.message \in {"Forbidden: no role", "no permission to use this service"}

(* C12: on the gated route POST /users, a request with a valid token of an
   existing user reaches createUser if and only if the stored role of that
   user is in the route's required set; otherwise checkRole answers 403 and
   the handler does not run. *)
C12_GatePassesIffRoleAllowed ==
  /\ \A r \in Reqs :
       pc[r] \in {"cu_find", "cu_create"} =>
         users[req[r].cu.id].role \in allowedRoles
  /\ (Answered("createUser") /\ out.req.cu.id # NoId) =>
       (GateRefused(out) <=> users[out.req.cu.id].role \notin allowedRoles)

(* C13: a request to POST /users whose bearer token is missing or does not
   verify is answered 401 by authMiddleware, not 403; checkRole never answers a request that has no identity. *)
C13_UnauthenticatedBeforeGate ==
  Answered("createUser") =>
    /\ verifyJwt(out.req.bearer) = NoPayload =>
         /\ out.status = 401
         /\ out.message \in {"Missing token", "Invalid token"}
         /\ out.req.cu.id = NoId
    /\ out.req.cu.id = NoId => out.status = 401 /\ ~GateRefused(out)
    /\ GateRefused(out) => out.req.cu.id # NoId

C13_Witness ==
  /\ Answered("createUser") /\ out.req.bearer = InvalidToken
  /\ out.status = 401 /\ out.message = "Invalid token"

(* C14: updateUser changes the role of the target only for an actor whose role
   is SUPER_ADMIN or ADMIN; an ADMIN that requests the role SUPER_ADMIN for
   any user is answered 403 and the role stays; a SUPER_ADMIN that requests
   it is not refused, and the role is the requested one when the update is
   answered 200. *)
C14_RoleChangeNeedsAdmin ==
  [][/\ \A i \in UserIds :
          (users[i] # NoUser /\ users'[i] # NoUser /\ users'[i].role # users[i].role) =>
            \E r \in Reqs :
              /\ StepAt(r, "uu_update") /\ req[r].id = i
              /\ req[r].cu.role \in {"SUPER_ADMIN", "ADMIN"}
              /\ ~(req[r].cu.role = "ADMIN" /\ users'[i].role = "SUPER_ADMIN")
     /\ (out' # NoOut /\ out'.req.op = "updateUser" /\ out'.req.user # NoUser
           /\ out'.req.role = "SUPER_ADMIN") =>
          /\ out'.req.cu.role = "ADMIN" =>
               out'.status = 403 /\ users' = users
          /\ out'.req.cu.role = "SUPER_ADMIN" =>
               /\ out'.status # 403
               /\ out'.status = 200 => users'[out'.req.id].role = "SUPER_ADMIN"]_vars

C14_Witness ==
  /\ Answered("updateUser") /\ out.status = 200
  /\ out.req.cu.role = "SUPER_ADMIN" /\ out.req.role = "SUPER_ADMIN"
  /\ out.req.cu.id # out.req.id
  /\ out.req.user.role = "USER"
  /\ users[out.req.id].role = "SUPER_ADMIN"

(* the role a createUser request asks for: role || 'USER' *)
RequestedRole(q) == IF q.role # NoRole THEN q.role ELSE "USER"

(* the create-user policy, pair by pair *)
CreateAllowed(actorRole, requestedRole) ==
  \/ actorRole = "SUPER_ADMIN"
  \/ actorRole = "ADMIN" /\ requestedRole # "SUPER_ADMIN"
  \/ actorRole = "DATA_ENTRY" /\ requestedRole \in {"ADMIN", "DATA_ENTRY", "USER"}

(* C15: for every actor role and requested role, createUser goes on to create
   the user exactly when the pair is allowed by the policy (SUPER_ADMIN: any
   role; ADMIN: any but SUPER_ADMIN; DATA_ENTRY: ADMIN, DATA_ENTRY, USER;
   nobody else); a denied request is answered 403 and creates no user, and
   every user that appears was created for an allowed pair. *)
C15_CreatePolicy ==
  [][/\ \A r \in Reqs :
          (pc[r] = "idle" /\ pc'[r] = "cu_find") =>
            CreateAllowed(req'[r].cu.role, RequestedRole(req'[r]))
     /\ (out = NoOut /\ out' # NoOut /\ out'.req.op = "createUser"
           /\ out'.req.cu.id # NoId) =>
          /\ out'.status = 403 <=>
               ~CreateAllowed(out'.req.cu.role, RequestedRole(out'.req))
          /\ out'.status = 403 => users' = users
     /\ \A i \in UserIds :
          (users[i] = NoUser /\ users'[i] # NoUser) =>
            \E r \in Reqs :
              /\ StepAt(r, "cu_create")
              /\ users'[i].role = RequestedRole(req[r])
              /\ CreateAllowed(req[r].cu.role, users'[i].role)]_vars

C15_Witness ==
  /\ Answered("createUser") /\ out.status = 201
  /\ out.req.cu.role = "DATA_ENTRY" /\ out.req.role = "USER"
  /\ users[out.req.uid] # NoUser /\ users[out.req.uid].role = "USER"

(* the delete-user policy for actor cu, target id and the target's role *)
DeleteAllowed(cu, id, targetRole) ==
  /\ cu.role \in {"SUPER_ADMIN", "ADMIN", "DATA_ENTRY"} \/ cu.id = id
  /\ ~(cu.role = "ADMIN" /\ targetRole = "SUPER_ADMIN")

(* C16: deleteUser on an existing target removes it if and only if the actor
   is SUPER_ADMIN, ADMIN, DATA_ENTRY or the target itself, and is not an ADMIN
   deleting a SUPER_ADMIN; a denied request is answered 403 and the target is
   still there; no user disappears but by an allowed deleteUser. *)
C16_DeletePolicy ==
  [][/\ \A i \in UserIds :
          (users[i] # NoUser /\ users'[i] = NoUser) =>
            \E r \in Reqs :
              /\ StepAt(r, "du_delete") /\ req[r].id = i
              /\ DeleteAllowed(req[r].cu, i, users[i].role)
     /\ (out' # NoOut /\ out'.req.op = "deleteUser" /\ out'.req.user # NoUser) =>
          LET allowed == DeleteAllowed(out'.req.cu, out'.req.id, out'.req.user.role) IN
            /\ allowed <=> out'.status = 200
            /\ out'.status = 200 =>
                 users[out'.req.id] # NoUser /\ users'[out'.req.id] = NoUser
            /\ ~allowed => out'.status = 403 /\ users' = users
                             /\ users'[out'.req.id] # NoUser]_vars

C16_Witness ==
  /\ Answered("deleteUser") /\ out.status = 200
  /\ out.req.cu.role = "DATA_ENTRY" /\ out.req.cu.id # out.req.id
  /\ out.req.user # NoUser /\ users[out.req.id] = NoUser

(* the answer o carries exactly the user object v *)
Returns(o, v) == o # NoOut /\ o.req.body = {v}

(* C17: getUser by an actor that is neither the target nor SUPER_ADMIN, ADMIN,
   DATA_ENTRY or FACTORY_OWNER is answered 200 with the username and the phone
   of the target and no other field. *)
C17_RestrictedProjection ==
  (/\ Answered("getUser") /\ out.req.user # NoUser
   /\ out.req.cu.id # out.req.id
   /\ out.req.cu.role \notin {"SUPER_ADMIN", "ADMIN", "DATA_ENTRY", "FACTORY_OWNER"}) =>
    /\ out.status = 200
    /\ Returns(out, [username |-> out.req.user.username, phone |-> out.req.user.phone])

(* C18: no answer of any operation carries a user object with a password
   field. *)
C18_NoPasswordInAnswers ==
  out # NoOut => \A v \in out.req.body : "password" \notin DOMAIN v

(* no two users share a username or an email *)
UniqueUsers ==
  \A i, j \in Existing :
    i # j => /\ users[i].username # users[j].username
             /\ (users[i].email # NoEmail => users[i].email # users[j].email)

(* C19: of two signups with the same username or email, however they
   interleave, one creates the user and the other is answered 409 Conflict;
   no state holds two users with the same username or the same email. *)
C19_RacingSignupsConflict ==
  /\ UniqueUsers
  /\ (Answered("signup") /\ out.req.uid = NoId) =>
       /\ out.status = 409
       /\ out.message \in {"Username exists", "Email exists"}

(* C20: a signup, login, resendCode or forgotPassword that is answered 500
   leaves no trace: the answering step changes neither table, and the user a
   failed signup had created is not in the user table. *)
C20_InternalErrorLeavesNoTrace ==
  [][(/\ out' # NoOut /\ out'.status = 500
      /\ out'.req.op \in {"signup", "login", "resendCode", "forgotPassword"}) =>
       /\ users' = users /\ codes' = codes
       /\ (out'.req.op = "signup" /\ out'.req.uid # NoId) =>
            users'[out'.req.uid] = NoUser]_vars

(* the answer o belongs to a request that stored a code *)
StoredCode(o) == o # NoOut /\ o.req.rec # NoId /\ o.req.rnd # NoRand

(* C22: every code sendVerificationCode stores is a string of six digits, and
   the codes cover 000000 to 999999: the least draw of Math.random() gives the
   least code, 000000. *)
C22_CodesCoverSixDigits ==
  StoredCode(out) =>
    /\ Len(String(out.req.code)) = 6
    /\ out.req.code \in 0..999999
    /\ codes[out.req.rec].code = out.req.code
    /\ out.req.rnd = 0 => out.req.code = 0

(* the request in slot r presents the value of record c, which is unconsumed *)
Presents(r, c) ==
  /\ codes[c] # NoRec /\ ~codes[c].consumed
  /\ codes[c].userId = req[r].uid /\ codes[c].code = req[r].code

(* the lookup in slot r goes on to the transaction *)
Matched(r) == pc'[r] \in {"ve_tx", "rp_tx"}

(* a later record of the same user with the same value, unconsumed *)
Shadowed(c) ==
  \E d \in LiveCodes :
    /\ d > c /\ codes[d].userId = codes[c].userId
    /\ codes[d].code = codes[c].code /\ ~codes[d].consumed

(* every stored record starts with expiresAt = now + CodeTTL, unconsumed *)
StoredWithTTL ==
  \A c \in CodeIds :
    (codes[c] = NoRec /\ codes'[c] # NoRec) =>
      codes'[c].expiresAt = now + CodeTTL /\ ~codes'[c].consumed

(* C25: a code issued at time t is stored with expiresAt = t + CodeTTL and
   consumed = false; presented unconsumed at time u, it is matched when
   u <= expiresAt and reported expired when u > expiresAt. *)
C25_ExpiryWindow ==
  [][/\ StoredWithTTL
     /\ \A r \in Reqs, c \in CodeIds :
          ((StepAt(r, "ve_find") \/ StepAt(r, "rp_find")) /\ Presents(r, c)) =>
            /\ now <= codes[c].expiresAt => Matched(r)
            /\ now > codes[c].expiresAt => CodeExpired(out')]_vars

(* C25, amended: the same for a record that no later unconsumed record of the
   user with the same value shadows. *)
C25_ExpiryWindowOfNewest ==
  [][/\ StoredWithTTL
     /\ \A r \in Reqs, c \in CodeIds :
          ((StepAt(r, "ve_find") \/ StepAt(r, "rp_find")) /\ Presents(r, c)
             /\ ~Shadowed(c)) =>
            /\ now <= codes[c].expiresAt =>
                 Matched(r) /\ req'[r].rec = c /\ out' = NoOut
            /\ now > codes[c].expiresAt =>
                 CodeExpired(out') /\ codes' = codes]_vars

C25_Witness ==
  /\ \E r \in Reqs, c \in LiveCodes :
       /\ pc[r] \in {"ve_tx", "rp_tx"} /\ req[r].rec = c
       /\ codes[c].expiresAt = now /\ ~codes[c].consumed

(* C24: updateUser by an ADMIN on a target whose role is SUPER_ADMIN is
   refused and leaves the target as it was, whichever fields the request
   carries. *)
C24_AdminCannotChangeSuperAdmin ==
  (/\ Answered("updateUser") /\ out.req.user # NoUser
   /\ out.req.cu.role = "ADMIN" /\ out.req.user.role = "SUPER_ADMIN") =>
    /\ out.status # 200
    /\ users[out.req.id] = out.req.user

(* C26: the userId of every verification-code record is the id of an existing
   user, also when deleteUser runs between the steps of a request that issues
   a code for the same user. *)
C26_CodesHaveOwners ==
  \A c \in LiveCodes :
    /\ codes[c].userId \in UserIds
    /\ users[codes[c].userId] # NoUser

C26_Witness ==
  /\ Answered("deleteUser") /\ out.status = 200
  /\ users[out.req.id] = NoUser
  /\ nextCid > 1
  /\ \A c \in LiveCodes : codes[c].userId # out.req.id
  /\ \E r \in Reqs : pc[r] = "issue" /\ req[r].uid = out.req.id

(* C27: whatever requests ADMIN actors send, a user that was SUPER_ADMIN at the
   start is neither deleted nor given another password hash. *)
C27_SuperAdminSurvivesAdmins ==
  /\ users[1] # NoUser
  /\ users[1].password = <<"bcrypt", "secret1">>

(* user i is a SUPER_ADMIN after the step and was not before it *)
BecomesSuperAdmin(i) ==
  /\ users'[i] # NoUser /\ users'[i].role = "SUPER_ADMIN"
  /\ users[i] = NoUser \/ users[i].role # "SUPER_ADMIN"

(* the step gives user i the role SUPER_ADMIN on behalf of request r *)
GivesSuperAdmin(r, i) ==
  /\ StepAt(r, "cu_create") \/ (StepAt(r, "uu_update") /\ req[r].id = i)
  /\ req[r].role = "SUPER_ADMIN"

(* signup creates the role USER *)
SignupCreatesUser ==
  \A r \in Reqs, i \in UserIds :
    (StepAt(r, "su_create") /\ users[i] = NoUser /\ users'[i] # NoUser) =>
      users'[i].role = "USER"

(* C28: a user that did not hold the role SUPER_ADMIN at the start gets it only
   from createUser or updateUser sent by an actor that is a SUPER_ADMIN at
   that moment; signup creates the role USER. *)
C28_SuperAdminOnlyFromSuperAdmin ==
  [][/\ \A i \in UserIds :
          BecomesSuperAdmin(i) =>
            \E r \in Reqs :
              /\ GivesSuperAdmin(r, i)
              /\ users[req[r].cu.id] # NoUser
              /\ users[req[r].cu.id].role = "SUPER_ADMIN"
     /\ SignupCreatesUser]_vars

(* C28, amended: the actor was a SUPER_ADMIN when the request was
   authenticated. *)
C28_SuperAdminOnlyFromAuthenticatedSuperAdmin ==
  [][/\ \A i \in UserIds :
          BecomesSuperAdmin(i) =>
            \E r \in Reqs :
              /\ GivesSuperAdmin(r, i)
              /\ req[r].cu.role = "SUPER_ADMIN"
     /\ SignupCreatesUser]_vars

C28_Witness ==
  /\ Answered("createUser") /\ out.status = 201
  /\ out.req.cu.role = "SUPER_ADMIN"
  /\ users[out.req.cu.id].role = "SUPER_ADMIN"
  /\ users[out.req.uid].role = "SUPER_ADMIN"

(* under PurposeSpec, the operation that issued record c *)
IssuerOf(c) == IF c = 1 THEN "signup" ELSE "forgotPassword"

(* C29: a record has no purpose: an unconsumed, unexpired code is matched by
   verifyEmail and by resetPassword whichever operation issued it; verifyEmail
   then sets emailVerified and resetPassword replaces the password, also with
   a code of the other kind. *)
C29_CodesCarryNoPurpose ==
  [][/\ \A r \in Reqs :
          (StepAt(r, "issue") /\ codes' # codes) =>
            /\ req[r].op = IssuerOf(nextCid)
            /\ DOMAIN codes'[nextCid] = {"userId", "code", "expiresAt", "consumed"}
     /\ \A r \in Reqs, c \in CodeIds :
          ((StepAt(r, "ve_find") \/ StepAt(r, "rp_find")) /\ Presents(r, c)
             /\ ~Shadowed(c) /\ now <= codes[c].expiresAt) =>
            Matched(r) /\ req'[r].rec = c
     /\ \A r \in Reqs :
          (StepAt(r, "ve_tx") /\ out'.status = 200) =>
            /\ users'[req[r].uid].emailVerified
            /\ codes'[req[r].rec].consumed
     /\ \A r \in Reqs :
          (StepAt(r, "rp_tx") /\ out'.status = 200) =>
            /\ users'[req[r].uid].password = <<"bcrypt", req[r].password>>
            /\ codes'[req[r].rec].consumed]_vars

C29_Witness ==
  /\ Answered("verifyEmail") /\ out.status = 200
  /\ IssuerOf(out.req.rec) = "forgotPassword"
  /\ ~out.req.user.emailVerified
  /\ users[out.req.uid].emailVerified

(* C30: for every string s at most one user has username = s or email = s,
   so the lookup of login cannot match two different users. *)
C30_LoginUnambiguous ==
  \A s \in Identifiers : Cardinality(LoginMatches(s)) <= 1

(* C21: a request that carries a well-signed, unexpired token whose subject
   is a user the store has held passes the authentication step whatever the
   store holds now: it is never answered 401. *)
C21_TokenAcceptedWhateverTheStore ==
  (/\ out # NoOut
   /\ verifyJwt(out.req.bearer) # NoPayload
   /\ verifyJwt(out.req.bearer).sub < nextUid) => out.status # 401

(* the statement of the ad-expiration job runs in this step *)
JobSweeps == job.at = "updateMany" /\ job'.at = "idle"

(* C23: the ad-expiration sweep sets inShow=false exactly on the ads that are
   shown and whose expiresAt is not after the sweep's clock, and changes
   nothing else; a second sweep right after it changes nothing; and with the
   show, hide and update handlers interleaved, the inShow of every ad is the
   value written by the last statement that wrote it, and no ad disappears. *)
C23_SweepExactIdempotentLastWriteWins ==
  [][/\ JobSweeps =>
          \A a \in AdIds :
            /\ (ads[a] # NoAd /\ ads[a].inShow /\ ads[a].expiresAt <= job.clock) =>
                 ads'[a] = [ads[a] EXCEPT !.inShow = FALSE]
            /\ ~(ads[a] # NoAd /\ ads[a].inShow /\ ads[a].expiresAt <= job.clock) =>
                 ads'[a] = ads[a]
            /\ ~(ads'[a] # NoAd /\ ads'[a].inShow /\ ads'[a].expiresAt <= job.clock)
     /\ \A a \in AdIds :
          /\ ads[a] # NoAd => ads'[a] # NoAd
          /\ ads'[a] # NoAd => lastWrite'[a] = <<ads'[a].inShow>>]_vars

(* the job hides a shown, expired ad while a handler stands before its write
   to the same ad, and another ad stays as it is *)
C23_Witness ==
  /\ job.at = "idle"
  /\ \E a \in AdIds, b \in AdIds, r \in Reqs :
       /\ a # b
       /\ ads[a] # NoAd /\ ~ads[a].inShow /\ ads[a].expiresAt <= now
       /\ lastWrite[a] = <<FALSE>>
       /\ ads[b] # NoAd /\ ads[b].inShow
       /\ pc[r] \in {"sa_update", "ua_update"} /\ req[r].id = a
       /\ req[r].ad.inShow

====
